---- MODULE Spec2Model ----
(***************************************************************************)
(* Model of check_verification_status.py: the scanner that finds #[rule]   *)
(* markers in a spec file, resolves the decorated function and the nearest *)
(* "status:" comment, classifies every rule, and the aggregation of the    *)
(* per-file results into directory and project totals by main().           *)
(*                                                                         *)
(* Text is modelled as sequences of one-character strings.  Indices kept   *)
(* in variables and operator parameters are the 0-based indices of the     *)
(* Python code; line i of a file is ls[i + 1].                             *)
(***************************************************************************)
EXTENDS Naturals, Integers, Sequences, FiniteSets, TLC

VARIABLES
    lines,       \* analyze_file: the lines read from the file
    i,           \* analyze_file: index of the line the loop is at
    analysis,    \* the FileAnalysis being filled
    pc,          \* position in analyze_file / main
    root_exists, \* environment: the root directory exists
    fs,          \* environment: the files below the root
    args,        \* main: the parsed command line
    spec_files,  \* main: result of find_spec_files
    file_idx,    \* main: position of the loop over spec_files
    analyses,    \* main: the retained FileAnalysis objects
    stderr,      \* messages printed to the error channel
    stdout,      \* the report printed, None before
    outcome      \* the value main returned, None before

scanVars == <<lines, i, analysis>>

mainVars == <<root_exists, fs, args, spec_files, file_idx, analyses,
              stderr, stdout, outcome>>

vars == <<lines, i, analysis, pc, root_exists, fs, args, spec_files,
          file_idx, analyses, stderr, stdout, outcome>>

(***************************************************************************)
(* Optional values: None is the empty tuple, Some(x) the one-element tuple *)
(***************************************************************************)
None == <<>>

Some(x) == <<x>>

SetMin(S) == CHOOSE x \in S : \A y \in S : x <= y

SetMax(S) == CHOOSE x \in S : \A y \in S : x >= y

Min2(a, b) == IF a <= b THEN a ELSE b

Max2(a, b) == IF a >= b THEN a ELSE b

(***************************************************************************)
(* str primitives                                                          *)
(***************************************************************************)
WS == {" ", "\t", "\n", "\r"}

LowerAlpha == <<"a","b","c","d","e","f","g","h","i","j","k","l","m",
                "n","o","p","q","r","s","t","u","v","w","x","y","z">>

UpperAlpha == <<"A","B","C","D","E","F","G","H","I","J","K","L","M",
                "N","O","P","Q","R","S","T","U","V","W","X","Y","Z">>

Digits == {"0","1","2","3","4","5","6","7","8","9"}

\* the characters matched by \w
WordChars == {LowerAlpha[k] : k \in 1..26} \cup {UpperAlpha[k] : k \in 1..26}
             \cup Digits \cup {"_"}

LowerChar(c) ==
    IF \E k \in 1..26 : UpperAlpha[k] = c
    THEN LowerAlpha[CHOOSE k \in 1..26 : UpperAlpha[k] = c]
    ELSE c

\* str.lower()
Lower(s) == [k \in 1..Len(s) |-> LowerChar(s[k])]

\* str.strip()
Strip(s) ==
    LET nz == {k \in 1..Len(s) : s[k] \notin WS}
    IN  IF nz = {} THEN <<>> ELSE SubSeq(s, SetMin(nz), SetMax(nz))

\* str.startswith(p)
StartsWith(s, p) == Len(s) >= Len(p) /\ SubSeq(s, 1, Len(p)) = p

\* str.endswith(p)
EndsWith(s, p) ==
    Len(s) >= Len(p) /\ SubSeq(s, Len(s) - Len(p) + 1, Len(s)) = p

\* p in s
Contains(s, p) ==
    \E k \in 1..(Len(s) - Len(p) + 1) : SubSeq(s, k, k + Len(p) - 1) = p

\* s.replace(' ', '')
RemoveSpaces(s) == SelectSeq(s, LAMBDA c : c # " ")

\* the literal lit occurs in s at position k
LitAt(s, k, lit) ==
    k >= 1 /\ k + Len(lit) - 1 <= Len(s) /\ SubSeq(s, k, k + Len(lit) - 1) = lit

\* position reached by a greedy \s* started at k
SkipWs(s, k) ==
    LET nz == {j \in k..Len(s) : s[j] \notin WS}
    IN  IF nz = {} THEN Len(s) + 1 ELSE SetMin(nz)

\* last position of a greedy \w+ started at k (k - 1 when it matches nothing)
WordEnd(s, k) ==
    LET nw == {j \in k..Len(s) : s[j] \notin WordChars}
    IN  IF nw = {} THEN Len(s) ELSE SetMin(nw) - 1

\* last position of a greedy .+ started at k ('.' matches all but newline)
DotEnd(s, k) ==
    LET nl == {j \in k..Len(s) : s[j] = "\n"}
    IN  IF nl = {} THEN Len(s) ELSE SetMin(nl) - 1

(***************************************************************************)
(* Literals of the program                                                 *)
(***************************************************************************)
RULE == <<"#","[","r","u","l","e","]">>

RULE_SPACED == <<"#","["," ","r","u","l","e"," ","]">>

SLASHES == <<"/","/">>

STATUS == <<"s","t","a","t","u","s">>

COLON == <<":">>

PUB == <<"p","u","b">>

FN == <<"f","n">>

SANITY == <<"_","s","a","n","i","t","y">>

VERIFIED == <<"v","e","r","i","f","i","e","d">>

BUG == <<"b","u","g">>

\* range(i + 1, min(i + 15, len(lines))) in analyze_file and
\* min(rule_line_idx + 15, ...) in extract_status_comment
LOOKAHEAD == 15

\* range(rule_line_idx - 1, max(-1, rule_line_idx - 11), -1)
LOOKBACK == 11

(***************************************************************************)
(* re.search(r'//\s*status\s*:\s*(.+)', line, re.IGNORECASE)               *)
(***************************************************************************)
\* start of group 1 of a match that begins at p, 0 when none begins there
StatusMatchAt(s, p) ==
    LET b == SkipWs(s, p + 2)
        d == SkipWs(s, b + 6)
        r == SkipWs(s, d + 1)
        \* \s* is greedy and gives characters back to let .+ match one
        cand == {g \in (d + 1)..r : g <= Len(s) /\ s[g] # "\n"}
    IN  IF /\ LitAt(s, p, SLASHES)
           /\ LitAt(Lower(s), b, STATUS)
           /\ LitAt(s, d, COLON)
           /\ cand # {}
        THEN SetMax(cand)
        ELSE 0

\* match.group(1).strip() of the leftmost match, None when no match
StatusSearch(s) ==
    LET P == {p \in 1..Len(s) : StatusMatchAt(s, p) # 0}
    IN  IF P = {} THEN None
        ELSE LET g == StatusMatchAt(s, SetMin(P))
             IN  Some(Strip(SubSeq(s, g, DotEnd(s, g))))

(***************************************************************************)
(* re.search(r'(?:pub\s+)?fn\s+(\w+)', line)                               *)
(***************************************************************************)
\* start of group 1 when "fn\s+\w+" matches at q, 0 otherwise
FnAt(s, q) ==
    LET w == SkipWs(s, q + 2)
    IN  IF /\ LitAt(s, q, FN)
           /\ w > q + 2
           /\ w <= Len(s)
           /\ s[w] \in WordChars
        THEN w ELSE 0

\* start of group 1 of a match that begins at p, 0 when none begins there
FnMatchAt(s, p) ==
    LET q == SkipWs(s, p + 3)
    IN  IF LitAt(s, p, PUB) /\ q > p + 3 /\ FnAt(s, q) # 0
        THEN FnAt(s, q)
        ELSE FnAt(s, p)

extract_function_name(line) ==
    LET P == {p \in 1..Len(line) : FnMatchAt(line, p) # 0}
    IN  IF P = {} THEN None
        ELSE LET w == FnMatchAt(line, SetMin(P))
             IN  Some(SubSeq(line, w, WordEnd(line, w)))

(***************************************************************************)
(* class RuleInfo                                                          *)
(***************************************************************************)
_check_verified(status) ==
    IF status = None THEN FALSE
    ELSE StartsWith(Strip(Lower(status[1])), VERIFIED)

\* variant: "bug" anywhere in the status instead of at its start
_check_if_bug_anywhere(status) ==
    IF status = None THEN FALSE
    ELSE Contains(Strip(Lower(status[1])), BUG)

_check_if_bug(status) ==
    IF status = None THEN FALSE
    ELSE StartsWith(Strip(Lower(status[1])), BUG)

RuleInfo(name, status, line_num) ==
    [name        |-> name,
     status      |-> status,
     line_num    |-> line_num,
     is_verified |-> _check_verified(status),
     is_bug      |-> _check_if_bug(status)]

(***************************************************************************)
(* class FileAnalysis                                                      *)
(***************************************************************************)
FileAnalysis(file_path) ==
    [file_path        |-> file_path,
     rules            |-> <<>>,
     total_rules      |-> 0,
     verified_rules   |-> 0,
     unverified_rules |-> 0,
     bug_rules        |-> 0]

\* variant: every rule that is not verified is counted as unverified
add_rule_not_verified(a, rule) ==
    [a EXCEPT
       !.rules            = Append(@, rule),
       !.total_rules      = @ + 1,
       !.verified_rules   = IF rule.is_verified THEN @ + 1 ELSE @,
       !.unverified_rules = IF ~rule.is_verified THEN @ + 1 ELSE @,
       !.bug_rules        = IF rule.is_bug THEN @ + 1 ELSE @]

add_rule(a, rule) ==
    [a EXCEPT
       !.rules            = Append(@, rule),
       !.total_rules      = @ + 1,
       !.verified_rules   = IF rule.is_verified THEN @ + 1 ELSE @,
       !.unverified_rules = IF ~rule.is_verified /\ ~rule.is_bug
                            THEN @ + 1 ELSE @,
       !.bug_rules        = IF rule.is_bug THEN @ + 1 ELSE @]

(***************************************************************************)
(* extract_status_comment                                                  *)
(***************************************************************************)
\* the status pattern applied to the stripped line at 0-based index k
StatusAt(ls, k) == StatusSearch(Strip(ls[k + 1]))

\* first loop: the lines strictly between the marker and end_idx
ForwardSearch(ls, rule_line_idx, func_line_idx) ==
    LET end_idx == Min2(Min2(rule_line_idx + LOOKAHEAD, func_line_idx), Len(ls))
        hits == {k \in (rule_line_idx + 1)..(end_idx - 1) :
                    StatusAt(ls, k) # None}
    IN  IF hits = {} THEN None ELSE StatusAt(ls, SetMin(hits))

\* variant: the second loop stops at function definitions only
IsBoundary_fn_only(line) == extract_function_name(line) # None

\* the test that breaks the second loop
IsBoundary(line) ==
    Contains(line, RULE) \/ extract_function_name(line) # None

RECURSIVE BackwardFrom(_, _, _)
\* second loop, from index k down to (and excluding) index stop
BackwardFrom(ls, k, stop) ==
    IF k <= stop THEN None
    ELSE LET line == Strip(ls[k + 1])
         IN  IF IsBoundary(line) THEN None
             ELSE IF StatusSearch(line) # None THEN StatusSearch(line)
             ELSE BackwardFrom(ls, k - 1, stop)

BackwardSearch(ls, rule_line_idx) ==
    BackwardFrom(ls, rule_line_idx - 1, Max2(-1, rule_line_idx - LOOKBACK))

\* variant: the lines before the marker are searched first
extract_status_comment_backward_first(ls, rule_line_idx, func_line_idx) ==
    LET bwd == BackwardSearch(ls, rule_line_idx)
    IN  IF bwd # None THEN bwd
        ELSE ForwardSearch(ls, rule_line_idx, func_line_idx)

extract_status_comment(ls, rule_line_idx, func_line_idx) ==
    LET fwd == ForwardSearch(ls, rule_line_idx, func_line_idx)
    IN  IF fwd # None THEN fwd ELSE BackwardSearch(ls, rule_line_idx)

(***************************************************************************)
(* analyze_file                                                            *)
(***************************************************************************)
\* the test of line 181 of the source
IsMarkerLine(line) ==
    Contains(line, RULE) \/ Contains(RemoveSpaces(line), RULE_SPACED)

\* the inner loop: the first function definition after the marker
FindFunction(ls, idx) ==
    LET J == {j \in (idx + 1)..(Min2(idx + LOOKAHEAD, Len(ls)) - 1) :
                 extract_function_name(ls[j + 1]) # None}
    IN  IF J = {}
        THEN [func_name |-> None, func_line_idx |-> idx]
        ELSE [func_name     |-> extract_function_name(ls[SetMin(J) + 1]),
              func_line_idx |-> SetMin(J)]

\* variant: only the bare name "_sanity" is skipped
IsSanity_exact(func_name) == func_name = SANITY

IsSanity(func_name) == EndsWith(func_name, SANITY)

\* one iteration of the loop over the lines
AnalyzeLine(ls, idx, a) ==
    IF ~IsMarkerLine(ls[idx + 1]) THEN a
    ELSE LET f == FindFunction(ls, idx)
         IN  IF f.func_name = None THEN a
             ELSE IF IsSanity(f.func_name[1]) THEN a
             ELSE add_rule(a, RuleInfo(f.func_name[1],
                                       extract_status_comment(ls, idx, f.func_line_idx),
                                       idx + 1))

RECURSIVE AnalyzeFrom(_, _, _)
AnalyzeFrom(ls, idx, a) ==
    IF idx >= Len(ls) THEN a
    ELSE AnalyzeFrom(ls, idx + 1, AnalyzeLine(ls, idx, a))

\* the result of analyze_file for a file that was read
analyze_lines(file_path, ls) == AnalyzeFrom(ls, 0, FileAnalysis(file_path))

(***************************************************************************)
(* Source lines used to build the files that are scanned                   *)
(***************************************************************************)
NL == <<"\n">>

SP == <<" ">>

BlankLine == NL

\* "// note"
CommentLine == SLASHES \o SP \o <<"n","o","t","e">> \o NL

\* "// defn of status": prose in which the function pattern matches
ProseLine ==
    SLASHES \o SP \o <<"d","e">> \o FN \o SP \o <<"o","f">> \o SP \o STATUS \o NL

\* "#[rule]"
RuleLine == RULE \o NL

\* "  #[rule]"
IndentedRuleLine == SP \o SP \o RULE \o NL

\* "#[ rule ]"
SpacedRuleLine == RULE_SPACED \o NL

\* "#[rule] // status: bug"
RuleStatusLine == RULE \o SP \o SLASHES \o SP \o STATUS \o COLON \o SP \o BUG \o NL

FnTail == <<"(",")"," ","{">> \o NL

\* "pub fn foo() {"
FnFooLine == PUB \o SP \o FN \o SP \o <<"f","o","o">> \o FnTail

\* "fn bar() {"
FnBarLine == FN \o SP \o <<"b","a","r">> \o FnTail

\* "pub  fn baz() {"
FnBazLine == PUB \o SP \o SP \o FN \o SP \o <<"b","a","z">> \o FnTail

\* "pub fn foo_sanity() {"
FnSanityLine == PUB \o SP \o FN \o SP \o <<"f","o","o">> \o SANITY \o FnTail

\* "fn qux() {} // status: verified"
FnStatusLine ==
    FN \o SP \o <<"q","u","x","(",")"," ","{","}"," ">> \o SLASHES \o SP
       \o STATUS \o COLON \o SP \o VERIFIED \o NL

StatusLine(text) == SLASHES \o SP \o STATUS \o COLON \o SP \o text \o NL

\* "// status: verified"
StVerifiedLine == StatusLine(VERIFIED)

\* "  //STATUS :Verified ok"
StUpperLine ==
    SP \o SP \o SLASHES \o <<"S","T","A","T","U","S"," ",":","V">>
       \o <<"e","r","i","f","i","e","d"," ","o","k">> \o NL

\* "// status: bug"
StBugLine == StatusLine(BUG)

\* "// Status: BUG: off"
StBugUpperLine ==
    SLASHES \o SP \o <<"S","t","a","t","u","s",":"," ","B","U","G",":"," ","o","f","f">> \o NL

VIOLATED_BUG == <<"v","i","o","l","a","t","e","d"," ","-"," ">> \o BUG

\* "// status: violated - bug"
StViolatedLine == StatusLine(VIOLATED_BUG)

\* "// status: timeout"
StTimeoutLine == StatusLine(<<"t","i","m","e","o","u","t">>)

\* "// status:" with no text, which the pattern does not match
StEmptyLine == SLASHES \o SP \o STATUS \o COLON \o NL

Blanks(n) == [k \in 1..n |-> BlankLine]

Fill(n, line) == [k \in 1..n |-> line]

(***************************************************************************)
(* The files analyze_file is run on                                        *)
(***************************************************************************)
\* longest run of filler lines between a marker and the function after it
MaxGap == 16

\* longest run of blank lines between a status comment and what follows it
MaxBack == 11

\* length of the files built from every combination of source lines
MaxShort == 2

\* number of filler lines inside one block of a block file
MaxPad == 1

MarkerLines == {RuleLine, IndentedRuleLine, SpacedRuleLine}

FnLines == {FnFooLine, FnBarLine, FnBazLine, FnSanityLine}

AllLines ==
    {BlankLine, CommentLine, ProseLine, RuleLine, IndentedRuleLine,
     SpacedRuleLine, RuleStatusLine, FnFooLine, FnBarLine, FnBazLine,
     FnSanityLine, FnStatusLine, StVerifiedLine, StUpperLine, StBugLine,
     StBugUpperLine, StViolatedLine, StTimeoutLine, StEmptyLine}

\* a marker, a run of filler lines and a function definition
WindowFiles ==
    {Blanks(p) \o <<m>> \o Fill(g, c) \o <<f>> \o Blanks(t) :
        p \in 0..1, m \in MarkerLines, g \in 0..MaxGap,
        c \in {BlankLine, CommentLine}, f \in FnLines, t \in 0..1}

\* what may stand between an earlier status comment and the marker
Separators ==
    {<<>>, <<CommentLine>>, <<RuleLine>>, <<SpacedRuleLine>>, <<FnBarLine>>,
     <<RuleLine, FnBarLine>>, <<FnStatusLine>>, <<RuleStatusLine>>,
     <<ProseLine>>}

\* a status comment before the marker, a separator, the marker, possibly a
\* status comment after it, and the function
StatusFiles ==
    {<<s1>> \o Blanks(g1) \o x \o Blanks(g2) \o <<RuleLine>> \o Blanks(g3)
        \o <<s2>> \o <<FnFooLine>> :
        s1 \in {BlankLine, StBugLine, StUpperLine},
        g1 \in 0..MaxBack, x \in Separators, g2 \in 0..1, g3 \in 0..1,
        s2 \in {BlankLine, StVerifiedLine, StEmptyLine, StTimeoutLine}}

\* one rule: marker, optional status comment, filler, function
Block(st, g, f) == <<RuleLine>> \o st \o Blanks(g) \o <<f>>

BlockStatuses ==
    {<<>>, <<StVerifiedLine>>, <<StBugLine>>, <<StBugUpperLine>>,
     <<StViolatedLine>>, <<StTimeoutLine>>}

\* three rules one after the other
BlockFiles ==
    {Block(s1, g, f1) \o Block(s2, g, FnBarLine) \o Blanks(g) \o Block(s3, g, f3) :
        s1 \in BlockStatuses, s2 \in BlockStatuses, s3 \in BlockStatuses,
        g \in 0..MaxPad, f1 \in {FnFooLine, FnSanityLine},
        f3 \in {FnBazLine, FnSanityLine}}

RECURSIVE SeqsUpTo(_, _)
SeqsUpTo(S, n) ==
    IF n = 0 THEN {<<>>}
    ELSE LET shorter == SeqsUpTo(S, n - 1)
         IN  shorter \cup {Append(q, x) : q \in shorter, x \in S}

ShortFiles == SeqsUpTo(AllLines, MaxShort)

\* markers on lines 5 and 12, each with its function, one status on line 3
BoundaryExampleFile ==
    <<BlankLine, BlankLine, StVerifiedLine, BlankLine, RuleLine, FnFooLine>>
    \o Blanks(5) \o <<RuleLine, FnBarLine>>

\* "status: bug" three lines before the marker, "status: verified" two after
ForwardExampleFile ==
    <<BlankLine, StBugLine, BlankLine, BlankLine, RuleLine, BlankLine,
      StVerifiedLine, FnFooLine>>

ScanFiles ==
    WindowFiles \cup StatusFiles \cup BlockFiles \cup ShortFiles
    \cup {BoundaryExampleFile, ForwardExampleFile}

(***************************************************************************)
(* analyze_file as a process: the loop over the lines of one file          *)
(***************************************************************************)
ScanPath == <<"repo", "specs", "a.rs">>

InitMainIdle ==
    /\ root_exists = TRUE
    /\ fs = <<>>
    /\ args = [path |-> None, format |-> "table", verbosity |-> "file"]
    /\ spec_files = <<>>
    /\ file_idx = 0
    /\ analyses = <<>>
    /\ stderr = <<>>
    /\ stdout = None
    /\ outcome = None

Init ==
    /\ lines \in ScanFiles
    /\ i = 0
    /\ analysis = FileAnalysis(ScanPath)
    /\ pc = "scan"
    /\ InitMainIdle

\* one iteration of "for i, line in enumerate(lines)"
ScanLine ==
    /\ pc = "scan"
    /\ i < Len(lines)
    /\ analysis' = AnalyzeLine(lines, i, analysis)
    /\ i' = i + 1
    /\ UNCHANGED <<lines, pc>>
    /\ UNCHANGED mainVars

\* the loop is exhausted: return analysis
ScanReturn ==
    /\ pc = "scan"
    /\ i = Len(lines)
    /\ pc' = "done"
    /\ UNCHANGED scanVars
    /\ UNCHANGED mainVars

Next == ScanLine \/ ScanReturn

Spec == Init /\ [][Next]_vars

(***************************************************************************)
(* Paths.  An absolute path is the sequence of its segments below "/"; a   *)
(* path given as text is a record that says whether it is absolute.        *)
(***************************************************************************)
IsPrefix(p, q) == Len(p) <= Len(q) /\ SubSeq(q, 1, Len(p)) = p

Range(q) == {q[k] : k \in 1..Len(q)}

\* Path(args.root).resolve()
ROOT == <<"repo">>

\* the directory the program is started in
CWD == <<"work">>

\* directories that exist whatever the files are
OtherDirs == {<<>>, CWD, CWD \o <<"tokens">>}

PathA == <<"repo", "packages", "tokens", "specs", "a.rs">>

PathA2 == <<"repo", "packages", "tokens", "specs", "b.rs">>

PathSub == <<"repo", "packages", "tokens", "specs", "sub", "c.rs">>

PathLib == <<"repo", "packages", "tokens", "src", "lib.rs">>

PathTxt == <<"repo", "specs", "notes.txt">>

PathTarget == <<"repo", "target", "specs", "t.rs">>

PathB == <<"repo", "tokens", "specs", "a.rs">>

\* every path of the environment, in the order sorted() gives them
PathOrder == <<PathA, PathA2, PathSub, PathLib, PathTxt, PathTarget, PathB>>

\* the file names matched by "*.rs"
RsNames == {"a.rs", "b.rs", "c.rs", "lib.rs", "t.rs"}

\* Path.exists()
Exists(p) ==
    \/ p \in OtherDirs
    \/ root_exists /\ (p = ROOT \/ \E f \in DOMAIN fs : IsPrefix(p, f))

\* Path.is_file()
IsFile(p) == p \in DOMAIN fs

\* sorted() of a set of paths
SortPaths(S) == SelectSeq(PathOrder, LAMBDA p : p \in S)

(***************************************************************************)
(* find_spec_files                                                         *)
(***************************************************************************)
excluded_dirs == {".certora_internal", "target", ".git"}

find_spec_files(root_dir) ==
    SortPaths({f \in DOMAIN fs :
                 /\ IsPrefix(root_dir, f)
                 /\ f[Len(f)] \in RsNames
                 /\ Range(f) \cap excluded_dirs = {}
                 /\ "specs" \in Range(f)})

(***************************************************************************)
(* get_directory, get_relative_path, filter_analyses_by_path               *)
(***************************************************************************)
\* str(Path(path).parent)
get_directory(path) == SubSeq(path, 1, Len(path) - 1)

get_relative_path(file_path, root_dir) ==
    IF ~IsPrefix(root_dir, file_path)
    THEN [absolute |-> TRUE, parts |-> file_path]
    ELSE LET relative == SubSeq(file_path, Len(root_dir) + 1, Len(file_path))
         IN  IF Len(relative) >= 2 /\ relative[1] = "packages"
             THEN [absolute |-> FALSE, parts |-> Tail(relative)]
             ELSE [absolute |-> FALSE, parts |-> relative]

\* variant: every analysis is kept
filter_analyses_keep_all(as, filter_path, root_dir) == as

filter_analyses_by_path(as, filter_path, root_dir) ==
    IF ~Exists(filter_path) THEN <<>>
    ELSE SelectSeq(as, LAMBDA a :
            IF IsFile(filter_path)
            THEN a.file_path = filter_path
            ELSE IsPrefix(filter_path, a.file_path))

(***************************************************************************)
(* format_json, format_table, format_summary                               *)
(***************************************************************************)
RECURSIVE SumSeq(_)
SumSeq(q) == IF q = <<>> THEN 0 ELSE Head(q) + SumSeq(Tail(q))

\* sum(a.field for a in as)
SumOver(as, field) == SumSeq([k \in 1..Len(as) |-> as[k][field]])

\* sorted(analyses, key=lambda x: x.file_path)
SortAnalyses(as) ==
    LET ps == SelectSeq(PathOrder, LAMBDA p : \E k \in 1..Len(as) : as[k].file_path = p)
    IN  [k \in 1..Len(ps) |-> as[CHOOSE j \in 1..Len(as) : as[j].file_path = ps[k]]]

NonEmpty(as) == SelectSeq(as, LAMBDA a : a.total_rules > 0)

ProjectTotals(as) ==
    [total_rules      |-> SumOver(as, "total_rules"),
     verified_rules   |-> SumOver(as, "verified_rules"),
     unverified_rules |-> SumOver(as, "unverified_rules"),
     bug_rules        |-> SumOver(as, "bug_rules")]

DirKey(a, root_dir) == get_relative_path(get_directory(a.file_path), root_dir)

\* the dir_stats dictionary
DirStats(as, root_dir) ==
    LET keys == {DirKey(as[k], root_dir) : k \in {j \in 1..Len(as) : as[j].total_rules > 0}}
        of(key) == SelectSeq(NonEmpty(as), LAMBDA a : DirKey(a, root_dir) = key)
    IN  [key \in keys |->
            [total      |-> SumOver(of(key), "total_rules"),
             verified   |-> SumOver(of(key), "verified_rules"),
             unverified |-> SumOver(of(key), "unverified_rules"),
             bug        |-> SumOver(of(key), "bug_rules")]]

JsonRule(rule) ==
    [name |-> rule.name, line |-> rule.line_num, status |-> rule.status,
     verified |-> rule.is_verified, bug |-> rule.is_bug]

JsonFile(a, root_dir) ==
    [file             |-> get_relative_path(a.file_path, root_dir),
     total_rules      |-> a.total_rules,
     verified_rules   |-> a.verified_rules,
     unverified_rules |-> a.unverified_rules,
     bug_rules        |-> a.bug_rules,
     rules            |-> [k \in 1..Len(a.rules) |-> JsonRule(a.rules[k])]]

format_json(as, root_dir, verbosity) ==
    LET files == NonEmpty(SortAnalyses(as))
    IN  [total        |-> ProjectTotals(as),
         by_directory |-> IF verbosity \in {"directory", "file"}
                          THEN Some(DirStats(as, root_dir)) ELSE None,
         by_file      |-> IF verbosity = "file"
                          THEN Some([k \in 1..Len(files) |-> JsonFile(files[k], root_dir)])
                          ELSE None]

NO_STATUS == <<"n","o"," ","s","t","a","t","u","s">>

TableRule(rule) ==
    [name |-> rule.name, line |-> rule.line_num,
     status |-> IF rule.status = None \/ rule.status = Some(<<>>)
                THEN NO_STATUS ELSE rule.status[1]]

TableFile(a, root_dir) ==
    LET unverified == SelectSeq(a.rules, LAMBDA r : ~r.is_verified /\ ~r.is_bug)
    IN  [file             |-> get_relative_path(a.file_path, root_dir),
         total_rules      |-> a.total_rules,
         verified_rules   |-> a.verified_rules,
         unverified_rules |-> a.unverified_rules,
         bug_rules        |-> a.bug_rules,
         rules            |-> [k \in 1..Len(unverified) |-> TableRule(unverified[k])]]

\* the numbers and names the table prints, section by section
format_table(as, root_dir, verbosity) ==
    LET files == NonEmpty(SortAnalyses(as))
    IN  [total        |-> ProjectTotals(as),
         by_directory |-> IF verbosity \in {"directory", "file"}
                          THEN Some(DirStats(as, root_dir)) ELSE None,
         by_file      |-> IF verbosity = "file"
                          THEN Some([k \in 1..Len(files) |-> TableFile(files[k], root_dir)])
                          ELSE None]

format_summary(as, output_format, root_dir, verbosity) ==
    IF output_format = "json"
    THEN format_json(as, root_dir, verbosity)
    ELSE format_table(as, root_dir, verbosity)

(***************************************************************************)
(* main                                                                    *)
(***************************************************************************)
MsgRootMissing == "Error: Root directory does not exist"

MsgNoSpecFiles == "No spec files found in specs directories."

MsgReadError == "Error reading"

MsgPathMissing == "Error: Path does not exist"

MsgNoMatch == "No spec files found matching path"

\* file contents of the environment
ContentNoRule == <<CommentLine, FnBarLine>>

ContentVerified == Block(<<StVerifiedLine>>, 0, FnFooLine)

ContentMixed ==
    Block(<<StVerifiedLine>>, 0, FnFooLine) \o Block(<<StBugLine>>, 0, FnBarLine)
       \o Block(<<>>, 0, FnBazLine) \o Block(<<StVerifiedLine>>, 0, FnSanityLine)

File(readable, content) == [readable |-> readable, content |-> content]

\* what each path may hold; None stands for a path that does not exist
FileChoices ==
    [p \in Range(PathOrder) |->
        IF p = PathA
        THEN {None, Some(File(FALSE, ContentMixed)), Some(File(TRUE, ContentMixed)),
              Some(File(TRUE, ContentVerified)), Some(File(TRUE, ContentNoRule))}
        ELSE IF p = PathB
        THEN {None, Some(File(FALSE, ContentMixed)), Some(File(TRUE, ContentMixed))}
        ELSE IF p = PathSub
        THEN {None, Some(File(TRUE, ContentNoRule)), Some(File(TRUE, ContentVerified))}
        ELSE {None, Some(File(TRUE, ContentVerified))}]

\* the file systems: PathLib, PathTxt and PathTarget come together
FileSystems ==
    {[p \in {q \in Range(PathOrder) : c[q] # None} |-> c[p][1]] :
        c \in {d \in [Range(PathOrder) -> UNION {FileChoices[p] : p \in Range(PathOrder)}] :
                 /\ \A p \in Range(PathOrder) : d[p] \in FileChoices[p]
                 /\ d[PathLib] = d[PathTxt]
                 /\ d[PathLib] = d[PathTarget]}}

Rel(parts) == Some([absolute |-> FALSE, parts |-> parts])

Abs(parts) == Some([absolute |-> TRUE, parts |-> parts])

\* values of --path
PathArgs ==
    {None, Rel(<<>>), Rel(<<"packages", "tokens", "specs">>), Rel(<<"tokens">>),
     Rel(<<"packages", "tokens", "specs", "a.rs">>), Rel(<<"nope">>),
     Rel(<<"packages", "tokens", "src", "lib.rs">>),
     Abs(<<"repo", "tokens", "specs">>), Abs(CWD)}

InitMain ==
    /\ lines = <<>>
    /\ i = 0
    /\ analysis = FileAnalysis(<<>>)
    /\ pc = "root"
    /\ root_exists \in BOOLEAN
    /\ fs \in IF root_exists THEN FileSystems ELSE {<<>>}
    /\ args \in [path : PathArgs, format : {"table", "json"},
                 verbosity : {"repo", "directory", "file"}]
    /\ spec_files = <<>>
    /\ file_idx = 0
    /\ analyses = <<>>
    /\ stderr = <<>>
    /\ stdout = None
    /\ outcome = None

Fail(msg) ==
    /\ stderr' = Append(stderr, msg)
    /\ outcome' = Some(1)
    /\ pc' = "done"

\* if not root_dir.exists(): ... return 1
CheckRoot ==
    /\ pc = "root"
    /\ IF ~root_exists
       THEN Fail(MsgRootMissing)
       ELSE pc' = "find" /\ UNCHANGED <<stderr, outcome>>
    /\ UNCHANGED <<scanVars, root_exists, fs, args, spec_files, file_idx,
                   analyses, stdout>>

\* spec_files = find_spec_files(root_dir); if not spec_files: ... return 1
FindFiles ==
    /\ pc = "find"
    /\ spec_files' = find_spec_files(ROOT)
    /\ IF spec_files' = <<>>
       THEN Fail(MsgNoSpecFiles)
       ELSE pc' = "analyze" /\ UNCHANGED <<stderr, outcome>>
    /\ UNCHANGED <<scanVars, root_exists, fs, args, file_idx, analyses, stdout>>

\* analyze_file(file_path): an unreadable file gives an empty analysis and a
\* diagnostic
analyze_file(file_path) ==
    IF fs[file_path].readable
    THEN analyze_lines(file_path, fs[file_path].content)
    ELSE FileAnalysis(file_path)

\* one iteration of "for spec_file in spec_files"
AnalyzeNext ==
    /\ pc = "analyze"
    /\ file_idx < Len(spec_files)
    /\ LET spec_file == spec_files[file_idx + 1]
       IN  /\ analysis' = analyze_file(spec_file)
           /\ stderr' = IF fs[spec_file].readable THEN stderr
                        ELSE Append(stderr, MsgReadError)
           /\ analyses' = IF analysis'.total_rules > 0
                          THEN Append(analyses, analysis') ELSE analyses
    /\ file_idx' = file_idx + 1
    /\ UNCHANGED <<lines, i, pc, root_exists, fs, args, spec_files, stdout, outcome>>

\* the loop over spec_files is exhausted
AnalyzeDone ==
    /\ pc = "analyze"
    /\ file_idx = Len(spec_files)
    /\ pc' = "filter"
    /\ UNCHANGED <<scanVars, mainVars>>

\* "if args.path": the text given is not empty
PathGiven == args.path # None /\ (args.path[1].absolute \/ args.path[1].parts # <<>>)

\* the filter_path main ends up with
FilterPath ==
    LET given == args.path[1]
    IN  IF given.absolute THEN given.parts
        ELSE IF Exists(ROOT \o given.parts) THEN ROOT \o given.parts
        ELSE CWD \o given.parts

\* if args.path: ... analyses = filter_analyses_by_path(...)
ApplyFilter ==
    /\ pc = "filter"
    /\ IF ~PathGiven
       THEN pc' = "report" /\ UNCHANGED <<analyses, stderr, outcome>>
       ELSE IF ~Exists(FilterPath)
       THEN Fail(MsgPathMissing) /\ UNCHANGED analyses
       ELSE /\ analyses' = filter_analyses_by_path(analyses, FilterPath, ROOT)
            /\ IF analyses' = <<>>
               THEN Fail(MsgNoMatch)
               ELSE pc' = "report" /\ UNCHANGED <<stderr, outcome>>
    /\ UNCHANGED <<scanVars, root_exists, fs, args, spec_files, file_idx, stdout>>

\* print(format_summary(...)); return 0
PrintReport ==
    /\ pc = "report"
    /\ stdout' = Some(format_summary(analyses, args.format, ROOT, args.verbosity))
    /\ outcome' = Some(0)
    /\ pc' = "done"
    /\ UNCHANGED <<scanVars, root_exists, fs, args, spec_files, file_idx,
                   analyses, stderr>>

NextMain ==
    CheckRoot \/ FindFiles \/ AnalyzeNext \/ AnalyzeDone \/ ApplyFilter \/ PrintReport

SpecMain == InitMain /\ [][NextMain]_vars

(***************************************************************************)
(* RuleInfo and add_rule on their own: any sequence of add_rule calls      *)
(***************************************************************************)
\* number of add_rule calls on one FileAnalysis
MaxRules == 3

FOO == <<"f","o","o">>

StatusTexts ==
    {VERIFIED, BUG, VIOLATED_BUG, <<>>, SP, SP \o BUG, BUG \o SP,
     <<"\t","V","e","r","i","f","i","e","d",":"," ","x">>,
     <<"B","U","G",":"," ","x">>,
     BUG \o <<"f","i","x">>,
     <<"v","e","r","i","f","y">>,
     <<"n","o","t"," ">> \o VERIFIED,
     <<"b","u">>}

StatusInputs == {None} \cup {Some(t) : t \in StatusTexts}

InitRules ==
    /\ lines = <<>>
    /\ i = 0
    /\ analysis = FileAnalysis(ScanPath)
    /\ pc = "rules"
    /\ InitMainIdle

AddRule ==
    /\ pc = "rules"
    /\ analysis.total_rules < MaxRules
    /\ \E st \in StatusInputs :
          analysis' = add_rule(analysis,
                               RuleInfo(FOO, st, analysis.total_rules + 1))
    /\ UNCHANGED <<lines, i, pc>>
    /\ UNCHANGED mainVars

NextRules == AddRule

SpecRules == InitRules /\ [][NextRules]_vars

(***************************************************************************)
(* Properties of the classification                                        *)
(***************************************************************************)
\* the text, without its leading whitespace and in lower case, begins with
\* word (stated position by position)
BeginsWith(text, word) ==
    \E p \in 1..Len(text) :
        /\ \A q \in 1..(p - 1) : text[q] \in WS
        /\ p + Len(word) - 1 <= Len(text)
        /\ \A j \in 1..Len(word) : LowerChar(text[p + j - 1]) = word[j]

OutcomeOf(status) ==
    IF status # None /\ BeginsWith(status[1], BUG) THEN "bug"
    ELSE IF status # None /\ BeginsWith(status[1], VERIFIED) THEN "verified"
    ELSE "unverified"

RuleIdx == 1..Len(analysis.rules)

CountOutcome(o) ==
    Cardinality({k \in RuleIdx : OutcomeOf(analysis.rules[k].status) = o})

\* C2: the outcome of every rule is decided by its status alone: bug iff the
\* status is present and, trimmed and lower-cased, starts with "bug";
\* verified iff it is not bug and starts with "verified"; unverified
\* otherwise, in particular when the status is absent; never both verified
\* and bug; and each rule is counted under its outcome.
OutcomeFromStatus ==
    /\ \A k \in RuleIdx :
          LET r == analysis.rules[k]
          IN  /\ r.is_bug <=> (OutcomeOf(r.status) = "bug")
              /\ (r.is_verified /\ ~r.is_bug) <=> (OutcomeOf(r.status) = "verified")
              /\ ~(r.is_verified /\ r.is_bug)
              /\ r.status = None => ~r.is_verified /\ ~r.is_bug
    /\ analysis.bug_rules = CountOutcome("bug")
    /\ analysis.verified_rules = CountOutcome("verified")
    /\ analysis.unverified_rules = CountOutcome("unverified")

\* three rules: absent status, an upper-case padded "verified", and a status
\* that merely contains "bug"
OutcomeFromStatusWitness ==
    /\ pc = "rules"
    /\ Len(analysis.rules) = 3
    /\ analysis.rules[1].status = None
    /\ analysis.rules[2].status = Some(<<"\t","V","e","r","i","f","i","e","d",":"," ","x">>)
    /\ analysis.rules[3].status = Some(VIOLATED_BUG)
    /\ analysis.verified_rules = 1
    /\ analysis.unverified_rules = 2
    /\ analysis.bug_rules = 0

(***************************************************************************)
(* Properties of the scanner and the status lookup                         *)
(***************************************************************************)
\* 0-based indices of the lines of the file that the loop has passed
Passed == 0..(i - 1)

LineAt(k) == lines[k + 1]

IsFnLine(k) == extract_function_name(LineAt(k)) # None

RulesAt(N) == {k \in RuleIdx : analysis.rules[k].line_num = N + 1}

\* status comments strictly between marker N and min(N + 15, F)
ForwardHits(N, F) ==
    {L \in (N + 1)..(Min2(N + 15, F) - 1) :
        L < Len(lines) /\ StatusAt(lines, L) # None}

\* C4: the status lookup prefers the lines after the marker: when a status
\* comment lies strictly between the marker line N and min(N + 15, F), F
\* being the line of the resolved function, the rule's status is the text of
\* the first such line, whatever stands before the marker.
ForwardPreferred ==
    \A k \in RuleIdx :
        LET r == analysis.rules[k]
            N == r.line_num - 1
            F == FindFunction(lines, N).func_line_idx
        IN  ForwardHits(N, F) # {} =>
                r.status = StatusAt(lines, SetMin(ForwardHits(N, F)))

\* "status: bug" at N - 3 and "status: verified" at N + 2 give "verified"
ForwardPreferredWitness ==
    /\ pc = "done"
    /\ lines = ForwardExampleFile
    /\ Len(analysis.rules) = 1
    /\ analysis.rules[1].line_num = 5
    /\ analysis.rules[1].status = Some(VERIFIED)
    /\ StatusAt(lines, 1) = Some(BUG)

\* status comments among the 10 lines before marker N that no marker line
\* and no function-definition line separates from N
BackwardHits(N) ==
    {L \in Max2(0, N - 10)..(N - 1) :
        /\ StatusAt(lines, L) # None
        /\ \A M \in L..(N - 1) : ~IsMarkerLine(LineAt(M)) /\ ~IsFnLine(M)}

FnLinesAfter(N) == {j \in (N + 1)..(Len(lines) - 1) : IsFnLine(j)}

NameAt(j) == extract_function_name(LineAt(j))[1]

\* C7: a marker whose function name ends with _sanity never produces a
\* rule: no rule carries such a name, no rule stands on the line of such a
\* marker, and the counts cover exactly the rules that were added.
SanityNeverReported ==
    /\ \A k \in RuleIdx : ~EndsWith(analysis.rules[k].name, SANITY)
    /\ \A N \in Passed :
          (/\ IsMarkerLine(LineAt(N))
           /\ FnLinesAfter(N) # {}
           /\ EndsWith(NameAt(SetMin(FnLinesAfter(N))), SANITY))
          => RulesAt(N) = {}
    /\ analysis.total_rules = Len(analysis.rules)
    /\ analysis.verified_rules + analysis.unverified_rules
          + analysis.bug_rules = Len(analysis.rules)

\* a file whose first marker has "status: verified" and a _sanity function
SanityNeverReportedWitness ==
    /\ pc = "done"
    /\ lines = Block(<<StVerifiedLine>>, 0, FnSanityLine)
                  \o Block(<<StBugLine>>, 0, FnBarLine)
                  \o Block(<<>>, 0, FnSanityLine)
    /\ Len(analysis.rules) = 1
    /\ analysis.rules[1].name = <<"b","a","r">>
    /\ analysis.total_rules = 1

\* the files of the end-to-end scenario: "status: verified", then
\* "status: violated - bug", then a rule without status comment
ScenarioFiles ==
    {Block(<<StVerifiedLine>>, g, FnFooLine)
        \o Block(<<StViolatedLine>>, g, FnBarLine) \o Blanks(g)
        \o Block(<<>>, g, FnBazLine) : g \in 0..MaxPad}

\* C3: the end-to-end scenario yields total 3, verified 1, unverified 1 and
\* bug 1 (the rule with status "violated - bug" counts as bug).
ScenarioCounts ==
    (pc = "done" /\ lines \in ScenarioFiles) =>
        /\ analysis.total_rules = 3
        /\ analysis.verified_rules = 1
        /\ analysis.unverified_rules = 1
        /\ analysis.bug_rules = 1

\* function-definition lines among the 15 lines after line N
Window15(N) == {j \in (N + 1)..(N + 15) : j < Len(lines) /\ IsFnLine(j)}

\* C9: the search for the function covers the 15 lines N + 1 .. N + 15 after
\* a marker on line N: the marker yields the rule named after the first
\* function line among them, and none iff there is no such line.
LookaheadFifteen ==
    pc = "done" =>
        \A N \in Passed :
            IsMarkerLine(LineAt(N)) =>
                IF Window15(N) = {} THEN RulesAt(N) = {}
                ELSE LET name == NameAt(SetMin(Window15(N)))
                     IN  IF EndsWith(name, SANITY) THEN RulesAt(N) = {}
                         ELSE \E k \in RulesAt(N) : analysis.rules[k].name = name

\* str with every whitespace character removed
RemoveWhitespace(s) == SelectSeq(s, LAMBDA c : c \notin WS)

\* C10: a line that contains #[rule] once its whitespace is removed is a
\* marker: followed within the window by a function whose name does not end
\* with _sanity, it produces a rule.
SpacedMarkerDetected ==
    pc = "done" =>
        \A N \in Passed :
            LET f == FindFunction(lines, N)
            IN  (/\ Contains(RemoveWhitespace(LineAt(N)), RULE)
                 /\ f.func_name # None
                 /\ ~EndsWith(f.func_name[1], SANITY))
                => \E k \in RulesAt(N) : analysis.rules[k].name = f.func_name[1]

(***************************************************************************)
(* Properties of the aggregation and of the run                            *)
(***************************************************************************)
\* C1: total_rules = verified_rules + unverified_rules + bug_rules for the
\* FileAnalysis being filled and every retained one, and the same equality
\* holds for the project total and for every directory entry of the report.
Conservation ==
    /\ analysis.total_rules = analysis.verified_rules
          + analysis.unverified_rules + analysis.bug_rules
    /\ \A k \in 1..Len(analyses) :
          analyses[k].total_rules = analyses[k].verified_rules
              + analyses[k].unverified_rules + analyses[k].bug_rules
    /\ stdout # None =>
          LET report == stdout[1]
          IN  /\ report.total.total_rules = report.total.verified_rules
                    + report.total.unverified_rules + report.total.bug_rules
              /\ report.by_directory # None =>
                    \A key \in DOMAIN report.by_directory[1] :
                        LET st == report.by_directory[1][key]
                        IN  st.total = st.verified + st.unverified + st.bug

\* a report with a directory entry that sums two files and counts a bug rule
ConservationWitness ==
    /\ pc = "done"
    /\ stdout # None
    /\ stdout[1].by_directory # None
    /\ stdout[1].total.total_rules = 5
    /\ stdout[1].total.bug_rules = 1
    /\ \E key \in DOMAIN stdout[1].by_directory[1] :
          /\ stdout[1].by_directory[1][key].total = 4
          /\ stdout[1].by_directory[1][key].bug = 1
          /\ stdout[1].by_directory[1][key].verified = 2

\* the retained analyses that are summed under a directory key
SummedUnder(key) ==
    {k \in 1..Len(analyses) : DirKey(analyses[k], ROOT) = key}

\* C6: directory keys do not collide: every by_directory entry sums the
\* counts of the files of exactly one real directory.
DirectoryKeysDistinct ==
    (stdout # None /\ stdout[1].by_directory # None) =>
        \A key \in DOMAIN stdout[1].by_directory[1] :
            \A j, k \in SummedUnder(key) :
                get_directory(analyses[j].file_path)
                    = get_directory(analyses[k].file_path)

\* the spec files below the root
Discovered ==
    {f \in DOMAIN fs :
        /\ \E k \in 1..Len(f) : f[k] = "specs"
        /\ f[Len(f)] \in RsNames
        /\ \A k \in 1..Len(f) : f[k] \notin {".certora_internal", "target", ".git"}}

\* the target of the path filter: below the root when that exists, below the
\* working directory otherwise
Target ==
    LET given == args.path[1]
    IN  IF given.absolute THEN given.parts
        ELSE IF Exists(ROOT \o given.parts) THEN ROOT \o given.parts
        ELSE CWD \o given.parts

\* the files with at least one rule that the filter keeps
Retained ==
    {f \in Discovered :
        /\ fs[f].readable
        /\ analyze_lines(f, fs[f].content).total_rules > 0
        /\ IF Target \in DOMAIN fs THEN f = Target ELSE IsPrefix(Target, f)}

CaseRootMissing == ~root_exists

CaseNoSpecFiles == root_exists /\ Discovered = {}

CasePathMissing == PathGiven /\ ~Exists(Target)

CaseNoMatch == PathGiven /\ Exists(Target) /\ Retained = {}

Unreadable == {f \in Discovered : ~fs[f].readable}

\* C8: the run ends with outcome 1, a message on the error channel and no
\* report exactly when the root is missing, no spec file is discovered, the
\* target of a given path filter does not exist, or the filter retains no
\* file; every other run prints a report and ends with outcome 0, unreadable
\* files being skipped with a diagnostic; "no spec files" and "nothing
\* matches the filter" are reported with different messages.
RunOutcome ==
    pc = "done" =>
        LET failed == CaseRootMissing \/ CaseNoSpecFiles \/ CasePathMissing
                         \/ CaseNoMatch
        IN  /\ outcome = IF failed THEN Some(1) ELSE Some(0)
            /\ failed => /\ stdout = None
                         /\ stderr # <<>>
                         /\ stderr[Len(stderr)] \in
                               {MsgRootMissing, MsgNoSpecFiles, MsgPathMissing, MsgNoMatch}
            /\ ~failed => /\ stdout # None
                          /\ \A k \in 1..Len(stderr) : stderr[k] = MsgReadError
                          /\ Len(stderr) = Cardinality(Unreadable)
            /\ (root_exists /\ CaseNoSpecFiles) => stderr[Len(stderr)] = MsgNoSpecFiles
            /\ (~CaseRootMissing /\ ~CaseNoSpecFiles /\ CaseNoMatch)
                  => stderr[Len(stderr)] = MsgNoMatch
            /\ MsgNoSpecFiles # MsgNoMatch

\* a run with a path filter in which one file is unreadable and another one
\* is reported
RunOutcomeWitness ==
    /\ pc = "done"
    /\ outcome = Some(0)
    /\ PathGiven
    /\ Unreadable # {}
    /\ stderr = <<MsgReadError>>
    /\ stdout # None
    /\ stdout[1].total.total_rules = 3

====
